---------------------------- MODULE Spec2Model ----------------------------
(* Multi-band MelGAN generator and PQMF filterbank                         *)
(* (tensorflow_tts/models/mb_melgan.py): construction of the generator's   *)
(* layer list, the forward pass over tensor shapes, the prototype filter   *)
(* design, the filterbank layout and the PQMF analysis / synthesis shape   *)
(* arithmetic.  Real-valued coefficients are kept symbolic: a coefficient  *)
(* is a record naming the formula that produced it.                        *)
EXTENDS Integers, Sequences, FiniteSets, TLC

\* ------------------------------------------------------------------ bounds
MaxFilters == 8
MaxStages == 2
MaxStacks == 2
MaxSubbands == 2
MaxTaps == 4
MaxT == 3
MaxBatch == 2
MaxLen == 5
\* cutoff_ratio is a rational c / CutoffDen; the inputs run over -1 .. CutoffDen + 1
CutoffDen == 3

\* number of mel channels in the input signature of inference
MelChannels == 80

ScaleValues == {1, 2}
KernelSizes == {2, 3}
StackKernelSizes == {3}

None == [built |-> FALSE]

\* ----------------------------------------------------------------- helpers
RECURSIVE Pow(_, _)
Pow(b, e) == IF e = 0 THEN 1 ELSE b * Pow(b, e - 1)

RECURSIVE Prod(_)
\* np.prod of a list; 1 for the empty list
Prod(s) == IF s = <<>> THEN 1 ELSE Head(s) * Prod(Tail(s))

SeqsUpTo(S, n) == UNION {[1..m -> S] : m \in 0..n}

\* Python's floor division and modulo (positive divisor)
FloorDiv(a, b) == a \div b
PyMod(a, b) == a % b

\* C integer division, truncating toward zero (positive divisor)
TruncDiv(a, b) == IF a >= 0 THEN a \div b ELSE -((-a) \div b)

\* ------------------------------------------------------------- filter design
\* the two asserts of design_prototype_filter
DesignArgsValid(taps, cutoff) == PyMod(taps, 2) = 0 /\ 0 < cutoff /\ cutoff < CutoffDen

\* h_i before the fix: sin(omega_c * d) / (pi * d) with d = n - 0.5 * taps; 0/0 is nan
InitialFilter(taps) == [m \in 1..(taps + 1) |-> IF 2 * (m - 1) - taps = 0 THEN "nan" ELSE "sinc"]

\* h_i[taps // 2] = cos(0) * cutoff_ratio
\* (variant: the fix is left out and the 0/0 sample stays nan)
FixCenterSkipped(h_i, taps) == h_i
FixCenter(h_i, taps) == [h_i EXCEPT ![FloorDiv(taps, 2) + 1] = "limit"]

\* w = kaiser(taps + 1, beta); h = h_i * w: one product per tap, nan stays nan
ApplyWindow(h_i, taps) == [m \in 1..(taps + 1) |-> [ideal |-> h_i[m], window |-> m - 1]]

\* design_prototype_filter(taps, cutoff_ratio, beta): the returned array, or the failure
design_prototype_filter(taps, cutoff) ==
    IF ~DesignArgsValid(taps, cutoff)
    THEN [ok |-> FALSE, error |-> "AssertionError"]
    ELSE [ok |-> TRUE, h |-> ApplyWindow(FixCenter(InitialFilter(taps), taps), taps)]


\* ------------------------------------------------------------------ ndarrays
\* an ndarray is [shape |-> <<d1, ..., dr>>, at |-> function of 0-based index tuples]
Indices(shape) ==
    IF Len(shape) = 2
    THEN (0..(shape[1] - 1)) \X (0..(shape[2] - 1))
    ELSE (0..(shape[1] - 1)) \X (0..(shape[2] - 1)) \X (0..(shape[3] - 1))

InsertAt(s, p, v) == SubSeq(s, 1, p) \o <<v>> \o SubSeq(s, p + 1, Len(s))
RemoveAt(s, p) == SubSeq(s, 1, p) \o SubSeq(s, p + 2, Len(s))

\* np.zeros(shape)
Zeros(shape) == [shape |-> shape, at |-> [idx \in Indices(shape) |-> 0]]

\* np.expand_dims(a, axis): a new axis of length 1 at 0-based position axis
ExpandDims(a, axis) ==
    LET sh == InsertAt(a.shape, axis, 1)
    IN  [shape |-> sh, at |-> [idx \in Indices(sh) |-> a.at[RemoveAt(idx, axis)]]]

\* np.transpose(a, perm): axis m of the result is axis perm[m] of a (0-based)
Transpose(a, perm) ==
    LET sh == [m \in 1..Len(perm) |-> a.shape[perm[m] + 1]]
    IN  [shape |-> sh,
         at |-> [idx \in Indices(sh) |->
                    a.at[[ax \in 1..Len(perm) |->
                            idx[CHOOSE m \in 1..Len(perm) : perm[m] + 1 = ax]]]]]

\* a * c, a new array
Scale(a, c) == [shape |-> a.shape, at |-> [idx \in DOMAIN a.at |-> a.at[idx] * c]]

\* ------------------------------------------------------------ TFPQMF.__init__
\* (-1) ** k
MinusOnePow(k) == IF k % 2 = 0 THEN 1 ELSE -1

\* 2 * h_proto[n] * cos((2k+1) * (pi / (2 * subbands)) * (n - taps/2) + phase * pi/4)
Modulated(h_proto, k, n, phase) == [proto |-> h_proto[n + 1], band |-> k, tap |-> n, phase |-> phase]

\* h_analysis: (subbands, taps + 1), row k filled by the loop over k
h_analysis(h_proto, subbands, taps) ==
    [shape |-> <<subbands, taps + 1>>,
     at |-> [idx \in Indices(<<subbands, taps + 1>>) |->
                Modulated(h_proto, idx[1], idx[2], MinusOnePow(idx[1]))]]

\* h_synthesis: (subbands, taps + 1), the phase term subtracted
h_synthesis(h_proto, subbands, taps) ==
    [shape |-> <<subbands, taps + 1>>,
     at |-> [idx \in Indices(<<subbands, taps + 1>>) |->
                Modulated(h_proto, idx[1], idx[2], -MinusOnePow(idx[1]))]]

\* (variant: the new axis put first, as for the synthesis filter)
AnalysisFilterExpandAxis0(ha) == Transpose(ExpandDims(ha, 0), <<2, 1, 0>>)

\* analysis_filter = transpose(expand_dims(h_analysis, 1), (2, 1, 0))
AnalysisFilter(ha) == Transpose(ExpandDims(ha, 1), <<2, 1, 0>>)

\* synthesis_filter = transpose(expand_dims(h_synthesis, 0), (2, 1, 0))
SynthesisFilter(hs) == Transpose(ExpandDims(hs, 0), <<2, 1, 0>>)

RECURSIVE UpdownFill(_, _, _)
\* for k in range(subbands): updown_filter[0, k, k] = 1.0
UpdownFill(t, k, subbands) ==
    IF k >= subbands THEN t
    ELSE UpdownFill([t EXCEPT !.at[<<0, k, k>>] = 1], k + 1, subbands)

\* (variant: the ones put on the main diagonal [k, k, k])
UpdownFilterDiagonal(subbands) ==
    [shape |-> <<subbands, subbands, subbands>>,
     at |-> [idx \in Indices(<<subbands, subbands, subbands>>) |->
                IF idx[1] = idx[2] /\ idx[2] = idx[3] THEN 1 ELSE 0]]

\* updown_filter = np.zeros((subbands, subbands, subbands)) with the loop applied
UpdownFilter(subbands) == UpdownFill(Zeros(<<subbands, subbands, subbands>>), 0, subbands)

\* TFPQMF(config): the layer's attributes, or the failure of the filter design
TFPQMF_init(cfg) ==
    LET d == design_prototype_filter(cfg.taps, cfg.cutoff_ratio)
    IN  IF ~d.ok
        THEN [built |-> FALSE, error |-> d.error]
        ELSE [built |-> TRUE,
              subbands |-> cfg.subbands,
              taps |-> cfg.taps,
              analysis_filter |-> AnalysisFilter(h_analysis(d.h, cfg.subbands, cfg.taps)),
              synthesis_filter |-> SynthesisFilter(h_synthesis(d.h, cfg.subbands, cfg.taps)),
              updown_filter |-> UpdownFilter(cfg.subbands)]

\* ------------------------------------------------------- tensor-shape kernels
\* a tensor is known by its shape <<batch, time, channels>>; a result is
\* [ok |-> TRUE, shape |-> ...] or [ok |-> FALSE, error |-> ...]
Ok(shape) == [ok |-> TRUE, shape |-> shape]
Err(e) == [ok |-> FALSE, error |-> e]

\* tf.pad(x, [[0, 0], [p, p], [0, 0]])
PadTime(shape, p) == <<shape[1], shape[2] + 2 * p, shape[3]>>

\* tf.nn.conv1d(x, filters, stride, padding="VALID"); filters is (width, in, out)
Conv1dValid(shape, fshape, stride) ==
    LET n == TruncDiv(shape[2] - fshape[1] + stride, stride)
    IN  IF shape[3] # fshape[2] THEN Err("ShapeMismatch")
        ELSE IF n < 0 THEN Err("NegativeOutputSize")
        ELSE Ok(<<shape[1], n, fshape[3]>>)

\* tf.nn.conv1d_transpose(x, filters, output_shape, strides) with the default SAME
\* padding; filters is (width, out, in)
Conv1dTranspose(shape, fshape, output_shape, strides) ==
    IF shape[3] # fshape[3] \/ output_shape[3] # fshape[2] THEN Err("ShapeMismatch")
    ELSE IF (output_shape[2] + strides - 1) \div strides # shape[2] THEN Err("ShapeMismatch")
    ELSE Ok(output_shape)

\* (variant: the signal padded by taps // 2 on one side only)
analysisPadOneSide(q, shape) ==
    LET padded == <<shape[1], shape[2] + FloorDiv(q.taps, 2), shape[3]>>
        dense == Conv1dValid(padded, q.analysis_filter.shape, 1)
    IN  IF ~dense.ok THEN dense
        ELSE Conv1dValid(dense.shape, q.updown_filter.shape, q.subbands)

\* TFPQMF.analysis(x)
analysis(q, shape) ==
    LET padded == PadTime(shape, FloorDiv(q.taps, 2))
        dense == Conv1dValid(padded, q.analysis_filter.shape, 1)
    IN  IF ~dense.ok THEN dense
        ELSE Conv1dValid(dense.shape, q.updown_filter.shape, q.subbands)

\* (variant: the zero padding before the synthesis filter left out)
synthesisNoPad(q, shape) ==
    LET up == Conv1dTranspose(shape, q.updown_filter.shape,
                              <<shape[1], shape[2] * q.subbands, q.subbands>>, q.subbands)
    IN  IF ~up.ok THEN up
        ELSE Conv1dValid(up.shape, q.synthesis_filter.shape, 1)

\* TFPQMF.synthesis(x)
synthesis(q, shape) ==
    LET scaled == Scale(q.updown_filter, q.subbands)
        up == Conv1dTranspose(shape, scaled.shape,
                              <<shape[1], shape[2] * q.subbands, q.subbands>>, q.subbands)
    IN  IF ~up.ok THEN up
        ELSE Conv1dValid(PadTime(up.shape, FloorDiv(q.taps, 2)), q.synthesis_filter.shape, 1)

\* ------------------------------------------------- MBMelGANGenerator layers
ReflectionPad(pad, name) == [type |-> "TFReflectionPad1d", padding_size |-> pad, name |-> name]
Conv1D(filters, kernel_size) == [type |-> "Conv1D", filters |-> filters, kernel_size |-> kernel_size]
Activation == [type |-> "nonlinear_activation"]
Tanh == [type |-> "tanh"]

\* (variant: the exponent one too large)
StageFiltersExponentOff(cfg, stage) == FloorDiv(cfg.filters, Pow(2, stage + 2))

\* filters of upsampling stage i: config.filters // (2 ** (i + 1))
StageFilters(cfg, stage) == FloorDiv(cfg.filters, Pow(2, stage + 1))

\* (variant: kernel_size and strides swapped)
ConvTransposeSwapped(cfg, stage) ==
    [type |-> "TFConvTranspose1d",
     filters |-> StageFilters(cfg, stage),
     kernel_size |-> cfg.upsample_scales[stage + 1],
     strides |-> cfg.upsample_scales[stage + 1] * 2,
     name |-> <<"conv_transpose", stage>>]

ConvTranspose(cfg, stage) ==
    [type |-> "TFConvTranspose1d",
     filters |-> StageFilters(cfg, stage),
     kernel_size |-> cfg.upsample_scales[stage + 1] * 2,
     strides |-> cfg.upsample_scales[stage + 1],
     name |-> <<"conv_transpose", stage>>]

\* (variant: the dilation taken from the stage index instead of the block index)
ResidualStackDilationByStage(cfg, stage, block) ==
    [type |-> "TFResidualStack",
     kernel_size |-> cfg.stack_kernel_size,
     filters |-> StageFilters(cfg, stage),
     dilation_rate |-> Pow(cfg.stack_kernel_size, stage),
     name |-> <<"residual_stack", stage, block>>]

ResidualStack(cfg, stage, block) ==
    [type |-> "TFResidualStack",
     kernel_size |-> cfg.stack_kernel_size,
     filters |-> StageFilters(cfg, stage),
     dilation_rate |-> Pow(cfg.stack_kernel_size, block),
     name |-> <<"residual_stack", stage, block>>]

\* (variant: only the first assert)
AssertsHoldProductOnly(cfg) == cfg.filters >= Prod(cfg.upsample_scales)

\* the two asserts opening MBMelGANGenerator.__init__
AssertsHold(cfg) ==
    /\ cfg.filters >= Prod(cfg.upsample_scales)
    /\ PyMod(cfg.filters, Pow(2, Len(cfg.upsample_scales))) = 0

InitialLayers(cfg) ==
    << ReflectionPad(FloorDiv(cfg.kernel_size - 1, 2), "first_reflect_padding"),
       Conv1D(cfg.filters, cfg.kernel_size) >>

FinalLayers(cfg) ==
    << Activation,
       ReflectionPad(FloorDiv(cfg.kernel_size - 1, 2), "last_reflect_padding"),
       Conv1D(cfg.out_channels, cfg.kernel_size) >>
    \o (IF cfg.use_final_nolinear_activation THEN <<Tanh>> ELSE <<>>)

\* ------------------------------------------------ layers applied to a shape
\* TFReflectionPad1d: pads the time axis by padding_size on each side; a reflection
\* needs padding_size samples besides the edge one to mirror
ReflectionPadApply(layer, shape) ==
    IF layer.padding_size > 0 /\ layer.padding_size >= shape[2]
    THEN Err("InvalidPadding")
    ELSE Ok(PadTime(shape, layer.padding_size))

\* tf.keras.layers.Conv1D, padding "valid", stride 1; the kernel takes the input's channels
Conv1DApply(layer, shape) == Conv1dValid(shape, <<layer.kernel_size, shape[3], layer.filters>>, 1)

\* TFConvTranspose1d, padding "same": time * strides, channels = filters
ConvTransposeApply(layer, shape) == Ok(<<shape[1], shape[2] * layer.strides, layer.filters>>)

\* TFResidualStack: time length and channel count preserved
ResidualStackApply(layer, shape) == Ok(shape)

\* one layer of the Sequential model applied to its input
LayerApply(layer, shape) ==
    CASE layer.type = "TFReflectionPad1d" -> ReflectionPadApply(layer, shape)
      [] layer.type = "Conv1D" -> Conv1DApply(layer, shape)
      [] layer.type = "TFConvTranspose1d" -> ConvTransposeApply(layer, shape)
      [] layer.type = "TFResidualStack" -> ResidualStackApply(layer, shape)
      [] OTHER -> Ok(shape)

\* --------------------------------------------------------------------- state
VARIABLES
    config,   \* the configuration record given to the constructor
    pc,       \* position in the constructor / the call in progress
    layers,   \* the local list `layers` of MBMelGANGenerator.__init__
    i,        \* index of the upsampling stage being added
    j,        \* index of the residual stack being added
    melgan,   \* self.melgan, the Sequential model (its layer list)
    pqmf,     \* self.pqmf (generator) or the TFPQMF layer itself
    x,        \* the tensor travelling through the forward pass
    ret       \* what the last call returned or raised

vars == <<config, pc, layers, i, j, melgan, pqmf, x, ret>>

NoCall == [op |-> "none"]
NoTensor == [pos |-> 0]

GenConfigs ==
    [filters : 1..MaxFilters,
     upsample_scales : SeqsUpTo(ScaleValues, MaxStages),
     stacks : 0..MaxStacks,
     kernel_size : KernelSizes,
     stack_kernel_size : StackKernelSizes,
     use_final_nolinear_activation : BOOLEAN,
     out_channels : 1..MaxSubbands,
     subbands : 1..MaxSubbands,
     taps : {MaxTaps - 1, MaxTaps},
     cutoff_ratio : {1}]

\* ------------------------------------------- MBMelGANGenerator.__init__ steps
Init ==
    /\ config \in GenConfigs
    /\ pc = "asserts"
    /\ layers = <<>>
    /\ i = 0
    /\ j = 0
    /\ melgan = None
    /\ pqmf = None
    /\ x = NoTensor
    /\ ret = NoCall

\* lines 51-52: both asserts pass
AssertsPass ==
    /\ pc = "asserts"
    /\ AssertsHold(config)
    /\ pc' = "initial"
    /\ UNCHANGED <<config, layers, i, j, melgan, pqmf, x, ret>>

\* lines 51-52: an assert raises, the constructor is left
AssertsFail ==
    /\ pc = "asserts"
    /\ ~AssertsHold(config)
    /\ pc' = "failed"
    /\ ret' = [op |-> "__init__", out |-> Err("AssertionError")]
    /\ UNCHANGED <<config, layers, i, j, melgan, pqmf, x>>

\* lines 55-68
AddInitialLayers ==
    /\ pc = "initial"
    /\ layers' = layers \o InitialLayers(config)
    /\ i' = 0
    /\ pc' = "stage"
    /\ UNCHANGED <<config, j, melgan, pqmf, x, ret>>

\* lines 70-85: the activation and the transposed convolution of stage i
AddUpsampleLayer ==
    /\ pc = "stage"
    /\ i < Len(config.upsample_scales)
    /\ layers' = layers \o <<Activation, ConvTranspose(config, i)>>
    /\ j' = 0
    /\ IF config.stacks = 0
       THEN i' = i + 1 /\ pc' = "stage"
       ELSE i' = i /\ pc' = "stack"
    /\ UNCHANGED <<config, melgan, pqmf, x, ret>>

\* lines 88-101: residual stack j of stage i
AddResidualStack ==
    /\ pc = "stack"
    /\ j < config.stacks
    /\ layers' = Append(layers, ResidualStack(config, i, j))
    /\ j' = j + 1
    /\ IF j + 1 = config.stacks
       THEN i' = i + 1 /\ pc' = "stage"
       ELSE i' = i /\ pc' = "stack"
    /\ UNCHANGED <<config, melgan, pqmf, x, ret>>

\* lines 102-120: the final layers, tanh when configured
AddFinalLayers ==
    /\ pc = "stage"
    /\ i = Len(config.upsample_scales)
    /\ layers' = layers \o FinalLayers(config)
    /\ pc' = "compose"
    /\ UNCHANGED <<config, i, j, melgan, pqmf, x, ret>>

\* lines 122-123: self.melgan = Sequential(layers); self.pqmf = TFPQMF(config)
Compose ==
    /\ pc = "compose"
    /\ melgan' = [built |-> TRUE, layers |-> layers]
    /\ LET q == TFPQMF_init(config)
       IN  IF q.built
           THEN pqmf' = q /\ pc' = "ready" /\ ret' = [op |-> "__init__", out |-> Ok(<<>>)]
           ELSE pqmf' = None /\ pc' = "failed" /\ ret' = [op |-> "__init__", out |-> Err(q.error)]
    /\ UNCHANGED <<config, layers, i, j, x>>

\* ------------------------------------------------ MBMelGANGenerator.inference
\* inference(mels) entered with mels of shape (batch, T, 80)
InferenceStart ==
    /\ pc = "ready"
    /\ \E b \in 1..MaxBatch, t \in 1..MaxT :
          x' = [pos |-> 1, input |-> <<b, t, MelChannels>>, shape |-> <<b, t, MelChannels>>,
                applied |-> <<>>]
    /\ pc' = "melgan"
    /\ ret' = NoCall
    /\ UNCHANGED <<config, layers, i, j, melgan, pqmf>>

\* mb_audios = self.melgan(mels): the next layer of the Sequential model
ApplyLayer ==
    /\ pc = "melgan"
    /\ x.pos <= Len(melgan.layers)
    /\ LET r == LayerApply(melgan.layers[x.pos], x.shape)
       IN  IF r.ok
           THEN /\ x' = [x EXCEPT !.pos = @ + 1, !.shape = r.shape,
                                  !.applied = Append(@, melgan.layers[x.pos])]
                /\ UNCHANGED <<pc, ret>>
           ELSE /\ x' = NoTensor
                /\ pc' = "ready"
                /\ ret' = [op |-> "inference", input |-> x.input, applied |-> x.applied, out |-> r]
    /\ UNCHANGED <<config, layers, i, j, melgan, pqmf>>

\* return self.pqmf.synthesis(mb_audios)
InferenceSynthesis ==
    /\ pc = "melgan"
    /\ x.pos > Len(melgan.layers)
    /\ ret' = [op |-> "inference", input |-> x.input, applied |-> x.applied,
               out |-> synthesis(pqmf, x.shape)]
    /\ x' = NoTensor
    /\ pc' = "ready"
    /\ UNCHANGED <<config, layers, i, j, melgan, pqmf>>

Next ==
    \/ AssertsPass
    \/ AssertsFail
    \/ AddInitialLayers
    \/ AddUpsampleLayer
    \/ AddResidualStack
    \/ AddFinalLayers
    \/ Compose
    \/ InferenceStart
    \/ ApplyLayer
    \/ InferenceSynthesis

Spec == Init /\ [][Next]_vars

\* ------------------------------------------------------- TFPQMF used directly
PQMFConfigs ==
    [subbands : 1..MaxSubbands,
     taps : 0..MaxTaps,
     cutoff_ratio : (-1)..(CutoffDen + 1)]

\* shapes handed to analysis / synthesis: any batch, length and channel count
CallShapes == (1..MaxBatch) \X (0..MaxLen) \X (1..(MaxSubbands + 1))

InitPQMF ==
    /\ config \in PQMFConfigs
    /\ pc = "new"
    /\ layers = <<>>
    /\ i = 0
    /\ j = 0
    /\ melgan = None
    /\ pqmf = None
    /\ x = NoTensor
    /\ ret = NoCall

\* TFPQMF(config)
Construct ==
    /\ pc = "new"
    /\ LET q == TFPQMF_init(config)
       IN  IF q.built
           THEN pqmf' = q /\ pc' = "ready" /\ ret' = [op |-> "__init__", out |-> Ok(<<>>)]
           ELSE pqmf' = None /\ pc' = "failed" /\ ret' = [op |-> "__init__", out |-> Err(q.error)]
    /\ UNCHANGED <<config, layers, i, j, melgan, x>>

\* design_prototype_filter called on its own
DesignCall ==
    /\ \E taps \in 0..MaxTaps, cutoff \in (-1)..(CutoffDen + 1) :
          ret' = [op |-> "design_prototype_filter", taps |-> taps, cutoff_ratio |-> cutoff,
                  out |-> design_prototype_filter(taps, cutoff)]
    /\ UNCHANGED <<config, pc, layers, i, j, melgan, pqmf, x>>

\* pqmf.analysis(x)
AnalysisCall ==
    /\ pc = "ready"
    /\ \E shape \in CallShapes :
          ret' = [op |-> "analysis", input |-> shape, out |-> analysis(pqmf, shape)]
    /\ UNCHANGED <<config, pc, layers, i, j, melgan, pqmf, x>>

\* pqmf.synthesis(x)
SynthesisCall ==
    /\ pc = "ready"
    /\ \E shape \in CallShapes :
          ret' = [op |-> "synthesis", input |-> shape, out |-> synthesis(pqmf, shape)]
    /\ UNCHANGED <<config, pc, layers, i, j, melgan, pqmf, x>>

NextPQMF ==
    \/ Construct
    \/ DesignCall
    \/ AnalysisCall
    \/ SynthesisCall

SpecPQMF == InitPQMF /\ [][NextPQMF]_vars

\* ===================================================================== claims
\* A returned analysis / synthesis call on a single-channel / subbands-channel input
AnalysisReturned == ret.op = "analysis" /\ ret.input[3] = 1
SynthesisReturned == ret.op = "synthesis" /\ ret.input[3] = pqmf.subbands

\* C1 (as stated): analysis on a (batch, T, 1) input returns time length
\* floor((T + taps) / subbands) and subbands channels.
C1_AnalysisLengthAsStated ==
    AnalysisReturned =>
        /\ ret.out.ok
        /\ ret.out.shape[2] = (ret.input[2] + pqmf.taps) \div pqmf.subbands
        /\ ret.out.shape[3] = pqmf.subbands

\* C1 (amended): analysis on a (batch, T, 1) input returns batch unchanged, time
\* length floor(T / subbands) and subbands channels: the taps/2 padding on each side
\* is consumed by the (taps+1)-long stride-1 VALID convolution, which returns length
\* T, and the stride-subbands routing convolution returns floor(T / subbands).
C1_AnalysisLength ==
    AnalysisReturned =>
        /\ ret.out.ok
        /\ ret.out.shape = <<ret.input[1], ret.input[2] \div pqmf.subbands, pqmf.subbands>>

C1_Witness ==
    /\ AnalysisReturned
    /\ ret.out.ok
    /\ pqmf.taps >= 2
    /\ pqmf.subbands >= 2
    /\ ret.input[2] > pqmf.subbands
    /\ ret.input[2] % pqmf.subbands # 0

\* C3: synthesis on a (batch, T', subbands) input returns time length T' * subbands
\* and exactly one channel, the batch size unchanged.
C3_SynthesisLength ==
    SynthesisReturned =>
        /\ ret.out.ok
        /\ ret.out.shape = <<ret.input[1], ret.input[2] * pqmf.subbands, 1>>

C3_Witness ==
    /\ SynthesisReturned
    /\ ret.out.ok
    /\ pqmf.taps >= 2
    /\ pqmf.subbands >= 2
    /\ ret.input[2] >= 2

\* C6: design_prototype_filter fails when taps is odd or cutoff_ratio is not strictly
\* between 0 and 1; for even taps (a non-negative count) and 0 < cutoff_ratio < 1 it
\* returns taps + 1 coefficients, none of them nan, the one at index taps/2 set by the
\* closed-form value and all the others by the general formula.
C6_DesignPrototypeFilter ==
    ret.op = "design_prototype_filter" =>
        LET valid == ret.taps % 2 = 0 /\ 0 < ret.cutoff_ratio /\ ret.cutoff_ratio < CutoffDen
        IN  /\ ~valid => ~ret.out.ok
            /\ valid =>
                 /\ ret.out.ok
                 /\ Len(ret.out.h) = ret.taps + 1
                 /\ \A m \in 1..Len(ret.out.h) :
                       /\ ret.out.h[m].ideal =
                             (IF 2 * (m - 1) = ret.taps THEN "limit" ELSE "sinc")
                       /\ ret.out.h[m].window = m - 1

C6_Witness ==
    /\ ret.op = "design_prototype_filter"
    /\ ret.out.ok
    /\ ret.taps >= 2
    /\ ret.out.h[(ret.taps \div 2) + 1].ideal = "limit"

\* C7: the routing tensor of a built TFPQMF has shape (subbands, subbands, subbands),
\* holds 1 at [0, k, k] for every k and 0 everywhere else (exactly subbands nonzero
\* entries), and stays so after analysis and synthesis calls.
C7_RoutingTensor ==
    pqmf.built =>
        LET s == pqmf.subbands
            u == pqmf.updown_filter
        IN  /\ u.shape = <<s, s, s>>
            /\ DOMAIN u.at = (0..(s - 1)) \X (0..(s - 1)) \X (0..(s - 1))
            /\ \A idx \in DOMAIN u.at :
                  u.at[idx] = (IF idx[1] = 0 /\ idx[2] = idx[3] THEN 1 ELSE 0)
            /\ Cardinality({idx \in DOMAIN u.at : u.at[idx] # 0}) = s

C7_Witness ==
    /\ pqmf.built
    /\ pqmf.subbands >= 2
    /\ ret.op = "synthesis"
    /\ ret.out.ok
    /\ pqmf.updown_filter.at[<<0, 1, 1>>] = 1

\* C9: the analysis tensor has shape (taps+1, 1, subbands) with entry [n][0][k] the
\* analysis coefficient of band k at tap n (phase +(-1)^k), and the synthesis tensor
\* has shape (taps+1, subbands, 1) with entry [n][k][0] the synthesis coefficient of
\* band k at tap n (phase -(-1)^k), each built on prototype tap n.
C9_FilterLayout ==
    pqmf.built =>
        LET s == pqmf.subbands
            t == pqmf.taps
            a == pqmf.analysis_filter
            f == pqmf.synthesis_filter
            sign(k) == IF k % 2 = 0 THEN 1 ELSE -1
        IN  /\ a.shape = <<t + 1, 1, s>>
            /\ f.shape = <<t + 1, s, 1>>
            /\ DOMAIN a.at = (0..t) \X {0} \X (0..(s - 1))
            /\ DOMAIN f.at = (0..t) \X (0..(s - 1)) \X {0}
            /\ \A n \in 0..t, k \in 0..(s - 1) :
                  /\ a.at[<<n, 0, k>>].band = k
                  /\ a.at[<<n, 0, k>>].tap = n
                  /\ a.at[<<n, 0, k>>].phase = sign(k)
                  /\ a.at[<<n, 0, k>>].proto.window = n
                  /\ f.at[<<n, k, 0>>].band = k
                  /\ f.at[<<n, k, 0>>].tap = n
                  /\ f.at[<<n, k, 0>>].phase = -sign(k)
                  /\ f.at[<<n, k, 0>>].proto.window = n

C9_Witness ==
    /\ pqmf.built
    /\ pqmf.subbands >= 2
    /\ pqmf.taps >= 2
    /\ pqmf.analysis_filter.at[<<2, 0, 1>>].band = 1
    /\ pqmf.synthesis_filter.at[<<2, 1, 0>>].tap = 2

\* The stated construction preconditions, written out on the configuration
PreconditionsHold ==
    /\ config.filters >= Prod(config.upsample_scales)
    /\ config.filters % Pow(2, Len(config.upsample_scales)) = 0

InferenceReturned == ret.op = "inference" /\ ret.out.ok

C4_ConstructionFails ==
    ~PreconditionsHold =>
        /\ pc \in {"asserts", "failed"}
        /\ layers = <<>>
        /\ ~melgan.built
        /\ ~pqmf.built
        /\ (pc = "failed" => ret.op = "__init__" /\ ~ret.out.ok)

C4_Witness ==
    /\ pc = "failed"
    /\ config.filters >= Prod(config.upsample_scales)
    /\ config.filters % Pow(2, Len(config.upsample_scales)) # 0
    /\ layers = <<>>

\* C5: once the asserts have passed, the transposed convolution of every stage i has
\* filters / 2^(i+1) channels exactly (no truncation), at least one, and exactly
\* half the channels of the layer feeding it (the first convolution for stage 0, the
\* previous stage otherwise).
C5_StageChannels ==
    \A m \in DOMAIN layers :
        layers[m].type = "TFConvTranspose1d" =>
            LET stage == layers[m].name[2]
            IN  /\ layers[m].filters >= 1
                /\ layers[m].filters * Pow(2, stage + 1) = config.filters
                /\ \A n \in 1..(m - 1) :
                      (layers[n].type = "TFConvTranspose1d" /\ layers[n].name[2] = stage - 1)
                          => 2 * layers[m].filters = layers[n].filters
                /\ stage = 0 => 2 * layers[m].filters = layers[2].filters

C5_Witness ==
    /\ pc = "compose"
    /\ Len(config.upsample_scales) >= 2
    /\ \E m \in DOMAIN layers :
          /\ layers[m].type = "TFConvTranspose1d"
          /\ layers[m].name[2] = 1
          /\ layers[m].filters >= 1

\* The layer the claimed order puts at position m (1-based) of the list
ClaimedLayerAt(cfg, m, l) ==
    LET n == Len(cfg.upsample_scales)
        per == 2 + cfg.stacks
        q == m - 3
        stage == q \div per
        r == q % per
        pad == (cfg.kernel_size - 1) \div 2
    IN  IF m = 1 THEN l.type = "TFReflectionPad1d" /\ l.padding_size = pad
        ELSE IF m = 2 THEN l.type = "Conv1D" /\ l.filters = cfg.filters
                              /\ l.kernel_size = cfg.kernel_size
        ELSE IF m <= 2 + n * per THEN
            IF r = 0 THEN l.type = "nonlinear_activation"
            ELSE IF r = 1 THEN
                /\ l.type = "TFConvTranspose1d"
                /\ l.strides = cfg.upsample_scales[stage + 1]
                /\ l.kernel_size = 2 * cfg.upsample_scales[stage + 1]
                /\ l.filters * Pow(2, stage + 1) = cfg.filters
            ELSE
                /\ l.type = "TFResidualStack"
                /\ l.dilation_rate = Pow(cfg.stack_kernel_size, r - 2)
                /\ l.kernel_size = cfg.stack_kernel_size
                /\ l.filters * Pow(2, stage + 1) = cfg.filters
        ELSE IF m = 3 + n * per THEN l.type = "nonlinear_activation"
        ELSE IF m = 4 + n * per THEN l.type = "TFReflectionPad1d" /\ l.padding_size = pad
        ELSE IF m = 5 + n * per THEN l.type = "Conv1D" /\ l.filters = cfg.out_channels
                                        /\ l.kernel_size = cfg.kernel_size
        ELSE l.type = "tanh"

\* C10: the Sequential model holds 5 + len(upsample_scales) * (2 + stacks) layers,
\* plus 1 exactly when tanh is configured, in the claimed order (pad, conv; per stage
\* activation, transposed convolution, `stacks` residual blocks of dilation
\* stack_kernel_size^j; activation, pad, conv to out_channels; tanh last iff set),
\* and a returned inference applied exactly these layers in this order.
C10_LayerOrder ==
    melgan.built =>
        /\ Len(melgan.layers) =
              5 + Len(config.upsample_scales) * (2 + config.stacks)
                + (IF config.use_final_nolinear_activation THEN 1 ELSE 0)
        /\ \A m \in DOMAIN melgan.layers : ClaimedLayerAt(config, m, melgan.layers[m])
        /\ InferenceReturned => ret.applied = melgan.layers

C10_Witness ==
    /\ melgan.built
    /\ InferenceReturned
    /\ Len(config.upsample_scales) >= 2
    /\ config.stacks >= 2
    /\ config.use_final_nolinear_activation
    /\ Len(ret.applied) = 14

=============================================================================
